---- MODULE Spec2Model ----
(***************************************************************************)
(* go-builder: one invocation of the build orchestrator (main), and the    *)
(* pure helpers it is made of (placeholder expansion, environment layer    *)
(* composition, output path derivation, command composition).              *)
(*                                                                         *)
(* A string is a sequence of symbols.  A symbol is one character ("$",     *)
(* "{", "}", ":", "-", "/", "=", ...) or a run of literal text that holds  *)
(* none of the characters the program looks for ("builds", "linux", "app", *)
(* ".exe").  An environment or any other map[string]string is a function   *)
(* from strings to strings; a nil map is the function with empty domain.   *)
(***************************************************************************)
EXTENDS Integers, Sequences, FiniteSets, TLC

VARIABLES
    pc,        \* position of main: start, decide, loop, verify, done, fatal
    flags,     \* the command line: [dryRun, skipDocker, envMode]
    dryRun,    \* *dryRun, which main overwrites when build.debug is set
    rawCfg,    \* the configuration document as the YAML decoder yields it
    cfg,       \* main's cfg: LoadConfig's result, then expandEnv's
    osEnv,     \* the process environment
    baseEnv,   \* main's baseEnv
    runtime,   \* [GOOS, GOARCH] of the running binary
    fs,        \* the build directory and .gitignore in the working directory
    idx,       \* the target the loop is at (0: the host build)
    log,       \* what the invocation did so far: processes spawned, text printed
    phase,     \* position of a helper applied on its own
    input,     \* the helper's arguments
    result     \* the helper's results

mainVars == <<pc, flags, dryRun, rawCfg, cfg, osEnv, baseEnv, runtime, fs, idx, log>>
fnVars == <<phase, input, result>>
vars == <<pc, flags, dryRun, rawCfg, cfg, osEnv, baseEnv, runtime, fs, idx, log,
          phase, input, result>>

(***************************************************************************)
(* Bounds of the model.                                                    *)
(***************************************************************************)
\* longest target list of a configuration
MaxTargets == 2
\* most fragments a string handed to the placeholder expander is made of
MaxFrags == 5
\* the most link-time variables (build.vars) of a configuration in SpecCmd
MaxVars == 2
\* most lines of the .gitignore a build-directory run starts from
MaxLines == 2
\* most calls of ensureBuildDir in a build-directory run
MaxCalls == 3

(***************************************************************************)
(* Strings.                                                                *)
(***************************************************************************)
Min(S) == CHOOSE x \in S : \A y \in S : x <= y

EmptyMap == [k \in {} |-> <<>>]

\* strings.HasSuffix
HasSuffix(s, suffix) ==
    /\ Len(s) >= Len(suffix)
    /\ SubSeq(s, Len(s) - Len(suffix) + 1, Len(s)) = suffix

\* s holds the symbol c
Contains(s, c) == \E p \in 1..Len(s) : s[p] = c

RECURSIVE Concat(_)
\* the strings of a list, one after the other
Concat(ss) == IF ss = <<>> THEN <<>> ELSE Head(ss) \o Concat(Tail(ss))

RECURSIVE Join(_, _)
\* strings.Join
Join(ss, sep) ==
    IF ss = <<>> THEN <<>>
    ELSE IF Len(ss) = 1 THEN ss[1]
    ELSE ss[1] \o sep \o Join(Tail(ss), sep)

(***************************************************************************)
(* Placeholder expansion: the closure expand of expandEnv, which is        *)
(* os.Expand with a mapping that knows the ${NAME:-default} form.          *)
(***************************************************************************)
\* the symbols that are letters, digits or underscores throughout
AlphaNumSyms ==
    {"V", "d", "x", "v2", "0", "1", "app", "srv", "builds", "out", "bin", "cmd",
     "linux", "windows", "darwin", "amd64", "arm64", "CGO_ENABLED", "GOOS", "GOARCH",
     "CC", "gcc", "sh", "prod", "mod", "N", "image", "work", "hostdir", "CGO"}

isAlphaNum(c) == c \in AlphaNumSyms

isShellSpecialVarPlain(c) == FALSE

isShellSpecialVar(c) ==
    c \in {"*", "#", "$", "@", "!", "?", "-",
           "0", "1", "2", "3", "4", "5", "6", "7", "8", "9"}

\* os.getShellName: the name that starts t, the text after a "$", and its width
getShellName(t) ==
    IF t[1] = "{"
    THEN IF Len(t) > 2 /\ isShellSpecialVar(t[2]) /\ t[3] = "}"
         THEN [name |-> <<t[2]>>, w |-> 3]
         ELSE LET close == {p \in 2..Len(t) : t[p] = "}"}
              IN  IF close = {} THEN [name |-> <<>>, w |-> 1]
                  ELSE IF Min(close) = 2 THEN [name |-> <<>>, w |-> 2]
                  ELSE [name |-> SubSeq(t, 2, Min(close) - 1), w |-> Min(close)]
    ELSE IF isShellSpecialVar(t[1])
    THEN [name |-> <<t[1]>>, w |-> 1]
    ELSE LET stop == {p \in 1..Len(t) : ~isAlphaNum(t[p])}
             n == IF stop = {} THEN Len(t) ELSE Min(stop) - 1
         IN  [name |-> SubSeq(t, 1, n), w |-> n]

\* os.Getenv
Getenv(k, E) == IF k \in DOMAIN E THEN E[k] ELSE <<>>

mappingUnsetOnly(k, E) ==
    LET at == {p \in 1..(Len(k) - 1) : k[p] = ":" /\ k[p + 1] = "-"}
    IN  IF at # {}
        THEN LET i == Min(at)
                 name == SubSeq(k, 1, i - 1)
                 def == SubSeq(k, i + 2, Len(k))
             IN  IF name \in DOMAIN E THEN E[name] ELSE def
        ELSE Getenv(k, E)

\* the function expand hands to os.Expand
mapping(k, E) ==
    LET at == {p \in 1..(Len(k) - 1) : k[p] = ":" /\ k[p + 1] = "-"}
    IN  IF at # {}
        THEN LET i == Min(at)
                 name == SubSeq(k, 1, i - 1)
                 def == SubSeq(k, i + 2, Len(k))
             IN  IF name \in DOMAIN E /\ E[name] # <<>> THEN E[name] ELSE def
        ELSE Getenv(k, E)

RECURSIVE ExpandAt(_, _, _)
\* os.Expand from position j on
ExpandAt(s, j, E) ==
    IF j > Len(s) THEN <<>>
    ELSE IF s[j] = "$" /\ j + 1 <= Len(s)
    THEN LET r == getShellName(SubSeq(s, j + 1, Len(s)))
             piece == IF r.name = <<>> /\ r.w > 0 THEN <<>>
                      ELSE IF r.name = <<>> THEN <<"$">>
                      ELSE mapping(r.name, E)
         IN  piece \o ExpandAt(s, j + r.w + 1, E)
    ELSE <<s[j]>> \o ExpandAt(s, j + 1, E)

\* expand(s), the process environment being E
Expand(s, E) == ExpandAt(s, 1, E)

(***************************************************************************)
(* Environment layers.                                                     *)
(***************************************************************************)
GOOS == <<"GOOS">>
GOARCH == <<"GOARCH">>

mergeEnvsFirstWins(g, l) ==
    [k \in DOMAIN g \cup DOMAIN l |-> IF k \in DOMAIN g THEN g[k] ELSE l[k]]

\* mergeEnvs: a fresh map holding g, then l over it
mergeEnvs(g, l) ==
    [k \in DOMAIN g \cup DOMAIN l |-> IF k \in DOMAIN l THEN l[k] ELSE g[k]]

\* mergeEnvLayers(base, global, local): base, then global, then local over it
mergeEnvLayers(base, global, local) == mergeEnvs(mergeEnvs(base, global), local)

BaseAfterMergeShared(base, env) == env

\* what base holds once main has written into the map mergeEnvLayers returned
\* for it: that map is a fresh one, so base is as it was
BaseAfterMerge(base, env) == base

\* envSlice: the "k=v" strings of a map; Go ranges over the map in no fixed
\* order, and no reader of the slice depends on the order, so it is kept as a set
envSlice(m) == {k \o <<"=">> \o m[k] : k \in DOMAIN m}

\* the text before and after the first "=" of a "k=v" string
KeyOf(kv) ==
    LET eq == {p \in 1..Len(kv) : kv[p] = "="}
    IN  IF eq = {} THEN kv ELSE SubSeq(kv, 1, Min(eq) - 1)

ValueOf(kv) ==
    LET eq == {p \in 1..Len(kv) : kv[p] = "="}
    IN  IF eq = {} THEN <<>> ELSE SubSeq(kv, Min(eq) + 1, Len(kv))

\* sliceToMap: the map of a list of "k=v" strings
sliceToMap(env) ==
    [k \in {KeyOf(kv) : kv \in env} |->
        ValueOf(CHOOSE kv \in env : KeyOf(kv) = k)]

\* diffEnv(base, cur): the entries of cur that base lacks or holds otherwise
diffEnv(base, cur) ==
    [k \in {x \in DOMAIN cur : x \notin DOMAIN base \/ base[x] # cur[x]} |-> cur[k]]

TargetEnvNoSelectors(base, global, t) == mergeEnvLayers(base, global, t.Env)

\* the env of one declared target in main's loop: the layers, then GOOS and
\* GOARCH set to the target's os and arch
TargetEnv(base, global, t) ==
    LET env == mergeEnvLayers(base, global, t.Env)
    IN  [k \in DOMAIN env \cup {GOOS, GOARCH} |->
            IF k = GOOS THEN t.OS ELSE IF k = GOARCH THEN t.Arch ELSE env[k]]

\* the env of the host build, when no target is declared
HostEnv(base, global) == mergeEnvLayers(base, global, EmptyMap)

\* the variables dockerRun forwards to the container with -e
DockerEnv(global, dockerEnv) == mergeEnvLayers(EmptyMap, global, dockerEnv)

DryRunShowAll(envMode, base, env) ==
    IF envMode = "none" THEN EmptyMap ELSE sliceToMap(env)

\* runBuild's choice of the variables a dry run prints (it prints them sorted by
\* key, one per line; show = nil prints none, as an empty map does)
DryRunShow(envMode, base, env) ==
    LET cur == sliceToMap(env)
    IN  IF envMode = "none" THEN EmptyMap
        ELSE IF envMode = "all" THEN cur
        ELSE diffEnv(base, cur)

(***************************************************************************)
(* Paths.  The separator is the host's: "\" under Windows, where "/" is    *)
(* read as a separator too.                                                *)
(***************************************************************************)
Windows == <<"windows">>
DotExe == <<".exe">>

Sep(rt) == IF rt.GOOS = Windows THEN "\\" ELSE "/"
IsSep(c, rt) == c = "/" \/ (rt.GOOS = Windows /\ c = "\\")

RECURSIVE SplitPath(_, _)
\* the elements of a path, empty ones included
SplitPath(p, rt) ==
    LET at == {i \in 1..Len(p) : IsSep(p[i], rt)}
    IN  IF at = {} THEN <<p>>
        ELSE <<SubSeq(p, 1, Min(at) - 1)>>
                 \o SplitPath(SubSeq(p, Min(at) + 1, Len(p)), rt)

RECURSIVE CleanElems(_, _, _)
\* filepath.Clean on the elements: no empty element, no ".", ".." resolved
CleanElems(elems, acc, rooted) ==
    IF elems = <<>> THEN acc
    ELSE LET e == Head(elems)
             rest == Tail(elems)
         IN  IF e = <<>> \/ e = <<".">> THEN CleanElems(rest, acc, rooted)
             ELSE IF e = <<"..">>
             THEN IF acc # <<>> /\ acc[Len(acc)] # <<"..">>
                  THEN CleanElems(rest, SubSeq(acc, 1, Len(acc) - 1), rooted)
                  ELSE IF rooted THEN CleanElems(rest, acc, rooted)
                  ELSE CleanElems(rest, Append(acc, e), rooted)
             ELSE CleanElems(rest, Append(acc, e), rooted)

\* filepath.Clean
Clean(p, rt) ==
    IF p = <<>> THEN <<".">>
    ELSE LET rooted == IsSep(p[1], rt)
             body == Join(CleanElems(SplitPath(p, rt), <<>>, rooted), <<Sep(rt)>>)
         IN  IF rooted THEN <<Sep(rt)>> \o body
             ELSE IF body = <<>> THEN <<".">>
             ELSE body

\* filepath.Join: the non-empty elements, separated, cleaned
FilepathJoin(elems, rt) ==
    LET ne == SelectSeq(elems, LAMBDA e : e # <<>>)
    IN  IF ne = <<>> THEN <<>> ELSE Clean(Join(ne, <<Sep(rt)>>), rt)

RECURSIVE StripSeps(_, _)
StripSeps(p, rt) ==
    IF p # <<>> /\ IsSep(p[Len(p)], rt) THEN StripSeps(SubSeq(p, 1, Len(p) - 1), rt)
    ELSE p

\* filepath.Base
Base(p, rt) ==
    IF p = <<>> THEN <<".">>
    ELSE LET q == StripSeps(p, rt)
         IN  IF q = <<>> THEN <<Sep(rt)>>
             ELSE LET es == SplitPath(q, rt) IN es[Len(es)]

\* main's baseName
BaseName(c, rt) == IF c.Output = <<>> THEN Base(c.Source, rt) ELSE c.Output

TargetOutAlwaysExe(c, t, rt) ==
    IF t.Output # <<>> THEN t.Output
    ELSE LET out == FilepathJoin(<<c.BuildDir, t.OS, t.Arch, BaseName(c, rt)>>, rt)
         IN  IF t.OS = Windows THEN out \o DotExe ELSE out

\* out of one declared target in main's loop
TargetOut(c, t, rt) ==
    IF t.Output # <<>> THEN t.Output
    ELSE LET out == FilepathJoin(<<c.BuildDir, t.OS, t.Arch, BaseName(c, rt)>>, rt)
         IN  IF t.OS = Windows /\ ~HasSuffix(out, DotExe) THEN out \o DotExe ELSE out

\* out of the host build
HostOut(c, rt) ==
    LET out == FilepathJoin(<<c.BuildDir, rt.GOOS, rt.GOARCH, BaseName(c, rt)>>, rt)
    IN  IF rt.GOOS = Windows /\ ~HasSuffix(out, DotExe) THEN out \o DotExe ELSE out

(***************************************************************************)
(* Command composition.                                                    *)
(***************************************************************************)
\* the orders in which a range over a map may visit its keys
KeyOrders(m) ==
    {o \in [1..Cardinality(DOMAIN m) -> DOMAIN m] :
        \A i, j \in DOMAIN o : i # j => o[i] # o[j]}

composeLdflagsVarsFirst(ld, xvars, order) ==
    Join([i \in DOMAIN order |->
             <<"-X", " ", "'">> \o order[i] \o <<"=">> \o xvars[order[i]] \o <<"'">>] \o ld,
         <<" ">>)

\* composeLdflags, its range over vars visiting the keys in this order
composeLdflags(ld, xvars, order) ==
    Join(ld \o [i \in DOMAIN order |->
                   <<"-X", " ", "'">> \o order[i] \o <<"=">> \o xvars[order[i]] \o <<"'">>],
         <<" ">>)

BuildArgsRaceEarly(c, out, order) ==
    LET b == c.Build
        lf == composeLdflags(b.LdFlags, b.Vars, order)
    IN  <<<<"build">>>>
        \o (IF b.Verbose THEN <<<<"-v">>>> ELSE <<>>)
        \o (IF b.Race THEN <<<<"-race">>>> ELSE <<>>)
        \o (IF Len(b.Tags) > 0 THEN <<<<"-tags">>, Join(b.Tags, <<",">>)>> ELSE <<>>)
        \o (IF b.TrimPath THEN <<<<"-trimpath">>>> ELSE <<>>)
        \o (IF b.GcFlags # <<>> THEN <<<<"-gcflags">>, b.GcFlags>> ELSE <<>>)
        \o (IF b.AsmFlags # <<>> THEN <<<<"-asmflags">>, b.AsmFlags>> ELSE <<>>)
        \o (IF b.Mod # <<>> THEN <<<<"-mod">>, b.Mod>> ELSE <<>>)
        \o (IF lf # <<>> THEN <<<<"-ldflags">>, lf>> ELSE <<>>)
        \o (IF out # <<>> THEN <<<<"-o">>, out>> ELSE <<>>)
        \o <<c.Source>>

\* the argument list runBuild hands to go
BuildArgs(c, out, order) ==
    LET b == c.Build
        lf == composeLdflags(b.LdFlags, b.Vars, order)
    IN  <<<<"build">>>>
        \o (IF b.Verbose THEN <<<<"-v">>>> ELSE <<>>)
        \o (IF Len(b.Tags) > 0 THEN <<<<"-tags">>, Join(b.Tags, <<",">>)>> ELSE <<>>)
        \o (IF b.TrimPath THEN <<<<"-trimpath">>>> ELSE <<>>)
        \o (IF b.GcFlags # <<>> THEN <<<<"-gcflags">>, b.GcFlags>> ELSE <<>>)
        \o (IF b.AsmFlags # <<>> THEN <<<<"-asmflags">>, b.AsmFlags>> ELSE <<>>)
        \o (IF b.Mod # <<>> THEN <<<<"-mod">>, b.Mod>> ELSE <<>>)
        \o (IF b.Race THEN <<<<"-race">>>> ELSE <<>>)
        \o (IF lf # <<>> THEN <<<<"-ldflags">>, lf>> ELSE <<>>)
        \o (IF out # <<>> THEN <<<<"-o">>, out>> ELSE <<>>)
        \o <<c.Source>>

\* what runBuild prints in a dry run: the variables, then the command line
DryRunOutput(c, base, env, out, envMode, order) ==
    [show |-> DryRunShow(envMode, base, env),
     cmd |-> <<"go", " ">> \o Join(BuildArgs(c, out, order), <<" ">>)]

\* the argument list dockerRun hands to docker
DockerArgs(c, cmds, order) ==
    LET d == c.Docker[1]
        image == IF d.Image = <<>> THEN <<"docker.io/golang:latest">> ELSE d.Image
        workdir == IF d.WorkDir = <<>> THEN <<"/", "work">> ELSE d.WorkDir
        shell == IF d.Shell = <<>> THEN <<"sh">> ELSE d.Shell
        mount == <<"hostdir", ":">> \o workdir
        env == DockerEnv(c.Env, d.Env)
        envArgs == Concat([i \in DOMAIN order |->
                              <<<<"-e">>, order[i] \o <<"=">> \o env[order[i]]>>])
    IN  <<<<"run">>, <<"--rm">>, <<"-w">>, workdir, <<"-v">>, mount>>
        \o envArgs
        \o <<image, shell, <<"-c">>, Join(cmds, <<" ", "&&", " ">>)>>

InnerCommandsNoSkip(c) ==
    c.Docker[1].Setup
    \o <<<<"go install github.com/pablolagos/go-builder@latest">>,
         <<"go-builder", " ", "--config=.gobuilder.yml">>>>

\* the commands main runs in the container
InnerCommands(c) ==
    c.Docker[1].Setup
    \o <<<<"go install github.com/pablolagos/go-builder@latest">>,
         <<"go-builder", " ", "--skip-docker", " ", "--config=.gobuilder.yml">>>>

(***************************************************************************)
(* Configuration: LoadConfig and expandEnv.                                *)
(***************************************************************************)
\* LoadConfig's default for build_dir
LoadConfig(doc) ==
    [doc EXCEPT !.BuildDir = IF @ = <<>> THEN <<"builds">> ELSE @]

\* dupMap: out[expand(k)] = expand(v) for each entry; when two keys expand to the
\* same key, the entry the range visits last stays, which may be either
dupMap(m, E) ==
    LET keys == {Expand(k, E) : k \in DOMAIN m}
        values == {Expand(m[k], E) : k \in DOMAIN m}
    IN  {f \in [keys -> values] :
            \A x \in keys : \E k \in DOMAIN m : Expand(k, E) = x /\ f[x] = Expand(m[k], E)}

expandList(ss, E) == [i \in DOMAIN ss |-> Expand(ss[i], E)]

\* the Target values expandEnv may build from t: os, arch, output and env are
\* expanded, every other field of the new Target is left at its zero value
expandTarget(t, E) ==
    {[OS |-> Expand(t.OS, E), Arch |-> Expand(t.Arch, E),
      Output |-> Expand(t.Output, E), Env |-> e, VerifyStatic |-> "unset"] :
        e \in dupMap(t.Env, E)}

\* the configurations expandEnv may return: a copy of c with the strings of the
\* top level, of the build section and of the targets expanded
expandEnv(c, E) ==
    LET choices == [i \in DOMAIN c.Targets |-> expandTarget(c.Targets[i], E)]
        targets == {ts \in [DOMAIN c.Targets -> UNION {choices[i] : i \in DOMAIN choices}] :
                        \A i \in DOMAIN ts : ts[i] \in choices[i]}
    IN  {[c EXCEPT !.BuildDir = Expand(c.BuildDir, E),
                   !.Source = Expand(c.Source, E),
                   !.Output = Expand(c.Output, E),
                   !.Env = env,
                   !.Build.LdFlags = expandList(c.Build.LdFlags, E),
                   !.Build.Vars = bvars,
                   !.Build.Tags = expandList(c.Build.Tags, E),
                   !.Build.GcFlags = Expand(c.Build.GcFlags, E),
                   !.Build.AsmFlags = Expand(c.Build.AsmFlags, E),
                   !.Build.Mod = Expand(c.Build.Mod, E),
                   !.Targets = ts] :
            env \in dupMap(c.Env, E), bvars \in dupMap(c.Build.Vars, E), ts \in targets}

(***************************************************************************)
(* The build directory and .gitignore.  fs.dir says what the build         *)
(* directory's path holds; fs.ignore is .gitignore's text when it exists.  *)
(***************************************************************************)
RECURSIVE Lines(_)
\* the lines bufio.Scanner yields
Lines(text) ==
    LET nl == {p \in 1..Len(text) : text[p] = "\n"}
    IN  IF text = <<>> THEN <<>>
        ELSE IF nl = {} THEN <<text>>
        ELSE <<SubSeq(text, 1, Min(nl) - 1)>> \o Lines(SubSeq(text, Min(nl) + 1, Len(text)))

IsSpace(c) == c \in {" ", "\t", "\r"}

RECURSIVE TrimSpace(_)
\* strings.TrimSpace
TrimSpace(s) ==
    IF s # <<>> /\ IsSpace(s[1]) THEN TrimSpace(Tail(s))
    ELSE IF s # <<>> /\ IsSpace(s[Len(s)]) THEN TrimSpace(SubSeq(s, 1, Len(s) - 1))
    ELSE s

\* dirIgnored; io = "read" is .gitignore failing to open or to read
dirIgnored(f, dir, io) ==
    IF ~f.ignoreExists THEN [ignored |-> FALSE, err |-> "none"]
    ELSE IF io = "read" THEN [ignored |-> FALSE, err |-> "read"]
    ELSE [ignored |-> \E i \in DOMAIN Lines(f.ignore) :
                          LET line == TrimSpace(Lines(f.ignore)[i])
                          IN  line = dir \/ line = dir \o <<"/">>,
          err |-> "none"]

\* appendToGitignore; io = "write" is .gitignore failing to open for appending
appendToGitignore(f, dir, io) ==
    LET r == dirIgnored(f, dir, io)
    IN  IF r.err # "none" \/ r.ignored THEN [fs |-> f, err |-> r.err]
        ELSE IF io = "write" THEN [fs |-> f, err |-> "write"]
        ELSE [fs |-> [f EXCEPT !.ignoreExists = TRUE,
                               !.ignore = @ \o dir \o <<"/", "\n">>],
              err |-> "none"]

ensureBuildDirRegisters(f, dir, io) ==
    IF f.dir = "dir"
    THEN appendToGitignore(f, dir, io)
    ELSE IF f.dir = "file" \/ io = "mkdir"
    THEN [fs |-> f, err |-> "mkdir"]
    ELSE appendToGitignore([f EXCEPT !.dir = "dir"], dir, io)

\* ensureBuildDir; io = "mkdir" is MkdirAll failing
ensureBuildDir(f, dir, io) ==
    IF f.dir = "dir"
    THEN IF dirIgnored(f, dir, io).ignored
         THEN [fs |-> f, err |-> "none"]
         ELSE [fs |-> f, err |-> "not ignored"]
    ELSE IF f.dir = "file" \/ io = "mkdir"
    THEN [fs |-> f, err |-> "mkdir"]
    ELSE appendToGitignore([f EXCEPT !.dir = "dir"], dir, io)

IOFaults == {"none", "mkdir", "read", "write"}

(***************************************************************************)
(* main.                                                                   *)
(***************************************************************************)
\* one entry of log
Event(kind, target, ok, out, env, args, show) ==
    [kind |-> kind, target |-> target, ok |-> ok, out |-> out, env |-> env,
     args |-> args, show |-> show]

\* the entry of assertStatic: what file said of out ("none": file was not run)
FileEvent(kind, target, ok, out, verdict) ==
    [kind |-> kind, target |-> target, ok |-> ok, out |-> out, env |-> {},
     args |-> <<<<"-L">>, out>>, show |-> EmptyMap, verdict |-> verdict]

EffectiveDryRunFlagOnly(flag, c) == flag

\* *dryRun after main has read build.debug
EffectiveDryRun(flag, c) == flag \/ c.Build.Debug

ContainerDecisionAlways(c, skip) == c.Docker # <<>>

\* main's choice of the docker path
ContainerDecision(c, skip) == c.Docker # <<>> /\ ~skip

\* wantStatic of a declared target
WantStatic(c, t) ==
    IF t.VerifyStatic # "unset" THEN t.VerifyStatic = "true" ELSE c.Build.VerifyStatic

\* LoadConfig fails: the file is unreadable or no YAML
LoadConfigFails ==
    /\ pc = "start"
    /\ pc' = "fatal"
    /\ UNCHANGED <<flags, dryRun, rawCfg, cfg, osEnv, baseEnv, runtime, fs, idx, log, fnVars>>

\* cfg, err := LoadConfig(...); cfg = expandEnv(cfg); build.debug forces dry-run
LoadAndExpand ==
    /\ pc = "start"
    /\ cfg' \in expandEnv(LoadConfig(rawCfg), osEnv)
    /\ dryRun' = EffectiveDryRun(dryRun, cfg')
    /\ pc' = "decide"
    /\ UNCHANGED <<flags, rawCfg, osEnv, baseEnv, runtime, fs, idx, log, fnVars>>

\* the docker path: dockerRun prints the docker command line in a dry run and
\* runs docker otherwise; main returns
Delegate ==
    /\ pc = "decide"
    /\ ContainerDecision(cfg, flags.skipDocker)
    /\ \E order \in KeyOrders(DockerEnv(cfg.Env, cfg.Docker[1].Env)), ok \in BOOLEAN :
           LET args == DockerArgs(cfg, InnerCommands(cfg), order)
           IN  IF dryRun
               THEN /\ log' = Append(log, Event("print-docker", 0, TRUE, <<>>, {}, args,
                                                EmptyMap))
                    /\ pc' = "done"
               ELSE /\ log' = Append(log, Event("spawn-docker", 0, ok, <<>>, {}, args,
                                                EmptyMap))
                    /\ pc' = IF ok THEN "done" ELSE "fatal"
    /\ UNCHANGED <<flags, dryRun, rawCfg, cfg, osEnv, baseEnv, runtime, fs, idx, fnVars>>

\* the entry of ensureBuildDir: the directory and the error it returned
DirEvent(dir, err) ==
    [kind |-> "ensureBuildDir", target |-> 0, ok |-> err = "none", out |-> dir,
     env |-> {}, args |-> <<>>, show |-> EmptyMap, err |-> err]

AfterSetupGoesOn(err, n) == [pc |-> "loop", idx |-> IF n = 0 THEN 0 ELSE 1]

\* where main is after ensureBuildDir: log.Fatalf on an error, else the host
\* build or the first target
AfterSetup(err, n) ==
    IF err = "none" THEN [pc |-> "loop", idx |-> IF n = 0 THEN 0 ELSE 1]
    ELSE [pc |-> "fatal", idx |-> 0]

\* the local path up to the loop: ensureBuildDir, then baseEnv
LocalSetup ==
    /\ pc = "decide"
    /\ ~ContainerDecision(cfg, flags.skipDocker)
    /\ \E io \in IOFaults :
           LET r == ensureBuildDir(fs, cfg.BuildDir, io)
               next == AfterSetup(r.err, Len(cfg.Targets))
           IN  /\ fs' = r.fs
               /\ log' = Append(log, DirEvent(cfg.BuildDir, r.err))
               /\ pc' = next.pc
               /\ idx' = next.idx
               /\ baseEnv' = IF next.pc = "loop" THEN sliceToMap(envSlice(osEnv))
                             ELSE baseEnv
    /\ UNCHANGED <<flags, dryRun, rawCfg, cfg, osEnv, runtime, fnVars>>

AfterStepSkipsAhead(ok, wantStatic, i, n) ==
    IF ~ok THEN [pc |-> "fatal", idx |-> i]
    ELSE IF wantStatic THEN [pc |-> "verify", idx |-> i]
    ELSE IF i = 0 \/ i + 1 >= n THEN [pc |-> "done", idx |-> i]
    ELSE [pc |-> "loop", idx |-> i + 2]

AfterStepGoesOn(ok, wantStatic, i, n) ==
    IF ok /\ wantStatic THEN [pc |-> "verify", idx |-> i]
    ELSE IF i = 0 \/ i = n THEN [pc |-> "done", idx |-> i]
    ELSE [pc |-> "loop", idx |-> i + 1]

\* where main is after a step of target i of n: log.Fatalf on an error, the
\* static check when it is wanted, else the next target or the end
AfterStep(ok, wantStatic, i, n) ==
    IF ~ok THEN [pc |-> "fatal", idx |-> i]
    ELSE IF wantStatic THEN [pc |-> "verify", idx |-> i]
    ELSE IF i = 0 \/ i = n THEN [pc |-> "done", idx |-> i]
    ELSE [pc |-> "loop", idx |-> i + 1]

\* runBuild for target i (0: the host build) with env and out: a dry run prints,
\* else go runs and may fail
RunBuild(i, env, out, wantStatic) ==
    \E order \in KeyOrders(cfg.Build.Vars), ok \in BOOLEAN :
        LET args == BuildArgs(cfg, out, order)
            next == AfterStep(dryRun \/ ok, wantStatic, i, Len(cfg.Targets))
        IN  /\ IF dryRun
               THEN log' = Append(log, Event("print-go", i, TRUE, out, envSlice(env), args,
                               DryRunOutput(cfg, baseEnv, envSlice(env), out,
                                            flags.envMode, order).show))
               ELSE log' = Append(log, Event("spawn-go", i, ok, out, envSlice(env), args,
                                             EmptyMap))
            /\ pc' = next.pc
            /\ idx' = next.idx

\* the host build, when no target is declared
HostBuild ==
    /\ pc = "loop"
    /\ Len(cfg.Targets) = 0
    /\ RunBuild(0, HostEnv(baseEnv, cfg.Env), HostOut(cfg, runtime), cfg.Build.VerifyStatic)
    /\ UNCHANGED <<flags, dryRun, rawCfg, cfg, osEnv, baseEnv, runtime, fs, fnVars>>

\* one pass of the loop over cfg.Targets, up to runBuild's return
TargetBuild ==
    /\ pc = "loop"
    /\ Len(cfg.Targets) > 0
    /\ LET t == cfg.Targets[idx]
           env == TargetEnv(baseEnv, cfg.Env, t)
       IN  /\ RunBuild(idx, env, TargetOut(cfg, t, runtime), WantStatic(cfg, t))
           /\ baseEnv' = BaseAfterMerge(baseEnv, env)
    /\ UNCHANGED <<flags, dryRun, rawCfg, cfg, osEnv, runtime, fs, fnVars>>

AssertStaticAlwaysSpawns(dry) == TRUE

\* assertStatic runs file unless in a dry run
AssertStaticSpawns(dry) == ~dry

\* assertStatic for the target just built: file fails, or its output says
\* "statically linked" or does not
VerifyStatic ==
    /\ pc = "verify"
    /\ LET out == IF idx = 0 THEN HostOut(cfg, runtime)
                  ELSE TargetOut(cfg, cfg.Targets[idx], runtime)
       IN  \E verdict \in {"static", "dynamic", "error"} :
               LET spawns == AssertStaticSpawns(dryRun)
                   ok == ~spawns \/ verdict = "static"
                   next == AfterStep(ok, FALSE, idx, Len(cfg.Targets))
               IN  /\ log' = Append(log, FileEvent(IF spawns THEN "spawn-file"
                                                   ELSE "print-file",
                                                   idx, ok, out,
                                                   IF spawns THEN verdict ELSE "none"))
                   /\ pc' = next.pc
                   /\ idx' = next.idx
    /\ UNCHANGED <<flags, dryRun, rawCfg, cfg, osEnv, baseEnv, runtime, fs, fnVars>>

Next == LoadConfigFails \/ LoadAndExpand \/ Delegate \/ LocalSetup \/ HostBuild
            \/ TargetBuild \/ VerifyStatic

(***************************************************************************)
(* One invocation: the command line, the configuration document, the       *)
(* process environment, the host and the working directory are drawn.      *)
(***************************************************************************)
\* the lists of at most n elements of S
ListsUpTo(S, n) == UNION {[1..k -> S] : k \in 0..n}

Runtimes ==
    {[GOOS |-> <<"linux">>, GOARCH |-> <<"amd64">>],
     [GOOS |-> Windows, GOARCH |-> <<"amd64">>]}

FlowTargets ==
    {[OS |-> <<"linux">>, Arch |-> <<"amd64">>, Output |-> <<>>, Env |-> EmptyMap,
      VerifyStatic |-> vs] : vs \in {"unset", "true"}}
    \cup {[OS |-> Windows, Arch |-> <<"amd64">>, Output |-> <<>>,
           Env |-> [k \in {<<"CC">>} |-> <<"$", "{", "CC", ":", "-", "gcc", "}">>],
           VerifyStatic |-> vs] : vs \in {"unset", "false"}}

FlowBuild(debug, verify) ==
    [Tags |-> <<<<"prod">>>>, LdFlags |-> <<<<"-s -w">>>>,
     Vars |-> [k \in {<<"main.version">>} |-> <<"$", "{", "V", ":", "-", "d", "}">>],
     GcFlags |-> <<>>, AsmFlags |-> <<>>, Mod |-> <<>>, Race |-> FALSE,
     TrimPath |-> TRUE, Verbose |-> FALSE, Debug |-> debug, VerifyStatic |-> verify]

FlowDocker ==
    [Image |-> <<"image">>, WorkDir |-> <<>>, Shell |-> <<>>,
     Setup |-> <<<<"apk add git">>, <<"go version">>>>,
     Env |-> [k \in {<<"CC">>} |-> <<"$", "{", "CC", ":", "-", "gcc", "}">>]]

FlowConfigs ==
    {[BuildDir |-> <<>>, Source |-> <<".", "/", "cmd", "/", "srv">>,
      Output |-> <<"$", "{", "N", ":", "-", "app", "}">>,
      Env |-> env, Build |-> FlowBuild(debug, verify), Targets |-> ts, Docker |-> d] :
        env \in {EmptyMap, [k \in {<<"CGO_ENABLED">>} |-> <<"$", "{", "CGO", ":", "-", "0", "}">>]},
        debug \in BOOLEAN, verify \in BOOLEAN,
        ts \in ListsUpTo(FlowTargets, MaxTargets),
        d \in {<<>>, <<FlowDocker>>}}

\* the working directory: the build directory absent or there, .gitignore
\* absent, empty, listing the build directory, or listing another one
FlowFiles ==
    {[dir |-> d, ignoreExists |-> TRUE, ignore |-> i] :
        d \in {"absent", "dir"},
        i \in {<<>>, <<"builds", "/", "\n">>, <<"out", "/", "\n">>}}
    \cup {[dir |-> d, ignoreExists |-> FALSE, ignore |-> <<>>] : d \in {"absent", "dir"}}

FnIdle ==
    /\ phase = "idle"
    /\ input = <<>>
    /\ result = <<>>

Init ==
    /\ pc = "start"
    /\ flags \in [dryRun : BOOLEAN, skipDocker : BOOLEAN, envMode : {"diff"}]
    /\ dryRun = flags.dryRun
    /\ rawCfg \in FlowConfigs
    /\ cfg = <<>>
    /\ osEnv \in {EmptyMap, [k \in {<<"N">>} |-> <<"srv">>], [k \in {<<"N">>} |-> <<"$", "V">>]}
    /\ baseEnv = EmptyMap
    /\ runtime \in Runtimes
    /\ fs \in FlowFiles
    /\ idx = 0
    /\ log = <<>>
    /\ FnIdle

Spec == Init /\ [][Next]_vars

(***************************************************************************)
(* The expander on its own: a string and an environment snapshot are       *)
(* drawn, expand is applied once, then once more to its own result.        *)
(***************************************************************************)
\* the pieces the strings are made of
Frags == {<<"$", "{">>, <<"$">>, <<"}">>, <<":", "-">>, <<"V">>, <<"d">>}

RECURSIVE FragStrings(_)
FragStrings(n) ==
    IF n = 0 THEN {<<>>}
    ELSE LET shorter == FragStrings(n - 1)
         IN  shorter \cup {s \o f : s \in shorter, f \in Frags}

\* what V and d may be set to; V's last value holds a reference itself
ExpandEnvs ==
    LET vV == {<<>>, <<"v2">>, <<"$", "{", "d", "}">>}
        vd == {<<"x">>}
    IN  {EmptyMap}
        \cup {[k \in {<<"V">>} |-> v] : v \in vV}
        \cup {[k \in {<<"d">>} |-> v] : v \in vd}
        \cup {[k \in {<<"V">>, <<"d">>} |-> IF k = <<"V">> THEN v ELSE w] :
                 v \in vV, w \in vd}

NoResult == [once |-> <<>>, twice |-> <<>>]

MainIdle ==
    /\ pc = "idle"
    /\ flags = [dryRun |-> FALSE, skipDocker |-> FALSE, envMode |-> "diff"]
    /\ dryRun = FALSE
    /\ rawCfg = <<>>
    /\ cfg = <<>>
    /\ osEnv = EmptyMap
    /\ baseEnv = EmptyMap
    /\ runtime = [GOOS |-> <<"linux">>, GOARCH |-> <<"amd64">>]
    /\ fs = <<>>
    /\ idx = 0
    /\ log = <<>>

InitExpand ==
    /\ MainIdle
    /\ phase = "input"
    /\ input \in {[s |-> s, E |-> E] : s \in FragStrings(MaxFrags), E \in ExpandEnvs}
    /\ result = NoResult

ExpandOnce ==
    /\ phase = "input"
    /\ result' = [result EXCEPT !.once = Expand(input.s, input.E)]
    /\ phase' = "once"
    /\ UNCHANGED <<input, mainVars>>

ExpandTwice ==
    /\ phase = "once"
    /\ result' = [result EXCEPT !.twice = Expand(result.once, input.E)]
    /\ phase' = "twice"
    /\ UNCHANGED <<input, mainVars>>

NextExpand == ExpandOnce \/ ExpandTwice

SpecExpand == InitExpand /\ [][NextExpand]_vars

(***************************************************************************)
(* The environment composer on its own: the layers, one target and the     *)
(* --env mode are drawn; the environments main and dockerRun compose and   *)
(* the variables a dry run prints are computed.                            *)
(***************************************************************************)
\* the maps with keys among K and values among V
MapsOver(K, V) == UNION {[D -> V] : D \in SUBSET K}

EnvKeys == {<<"CGO_ENABLED">>, GOOS}
EnvValues == {<<"0">>, <<"1">>, <<"linux">>}
EnvModes == {"diff", "all", "none"}

\* the build settings and source the dry-run command line is composed from
EnvSampleConfig ==
    [Source |-> <<".", "/", "cmd", "/", "srv">>,
     Build |-> [Tags |-> <<>>, LdFlags |-> <<>>, Vars |-> EmptyMap, GcFlags |-> <<>>,
                AsmFlags |-> <<>>, Mod |-> <<>>, Race |-> FALSE, TrimPath |-> FALSE,
                Verbose |-> FALSE, Debug |-> FALSE, VerifyStatic |-> FALSE]]

InitEnv ==
    /\ MainIdle
    /\ phase = "input"
    /\ input \in
         {[base |-> b, global |-> g, docker |-> d, envMode |-> m,
           target |-> [OS |-> os, Arch |-> <<"amd64">>, Env |-> e]] :
             b \in MapsOver(EnvKeys, EnvValues),
             g \in MapsOver(EnvKeys, EnvValues),
             d \in MapsOver({<<"CGO_ENABLED">>}, EnvValues),
             e \in MapsOver(EnvKeys, EnvValues),
             os \in {<<"linux">>, Windows},
             m \in EnvModes}
    /\ result = <<>>

ComposeEnv ==
    /\ phase = "input"
    /\ LET tenv == TargetEnv(input.base, input.global, input.target)
           henv == HostEnv(input.base, input.global)
       IN  result' = [target |-> tenv,
                      host |-> henv,
                      docker |-> DockerEnv(input.global, input.docker),
                      shown |-> DryRunShow(input.envMode, input.base, envSlice(tenv)),
                      hostShown |-> DryRunShow(input.envMode, input.base, envSlice(henv)),
                      cmd |-> DryRunOutput(EnvSampleConfig, input.base, envSlice(tenv),
                                           <<"app">>, input.envMode, <<>>).cmd]
    /\ phase' = "composed"
    /\ UNCHANGED <<input, mainVars>>

NextEnv == ComposeEnv

SpecEnv == InitEnv /\ [][NextEnv]_vars

(***************************************************************************)
(* The target resolver on its own: a configuration's build directory,      *)
(* source, output name and target list are drawn and every out is derived. *)
(***************************************************************************)
PathTargets ==
    {[OS |-> os, Arch |-> arch, Output |-> o] :
        os \in {<<"linux">>, Windows},
        arch \in {<<"amd64">>, <<"arm64">>},
        o \in {<<>>, <<"bin", "/", "x">>, <<"x">> \o DotExe}}

InitPath ==
    /\ MainIdle
    /\ phase = "input"
    /\ input \in
         {[cfg |-> [BuildDir |-> bd, Source |-> <<".", "/", "cmd", "/", "srv">>,
                    Output |-> o, Targets |-> ts],
           rt |-> rt] :
             bd \in {<<"builds">>, <<"out", "/", "bin">>},
             o \in {<<>>, <<"app">>, <<"app">> \o DotExe},
             ts \in ListsUpTo(PathTargets, MaxTargets),
             rt \in Runtimes}
    /\ result = <<>>

ResolveOutputs ==
    /\ phase = "input"
    /\ result' = [outs |-> [i \in 1..Len(input.cfg.Targets) |->
                               TargetOut(input.cfg, input.cfg.Targets[i], input.rt)],
                  host |-> HostOut(input.cfg, input.rt)]
    /\ phase' = "resolved"
    /\ UNCHANGED <<input, mainVars>>

NextPath == ResolveOutputs

SpecPath == InitPath /\ [][NextPath]_vars

(***************************************************************************)
(* The command composer on its own: build settings, an out and a source    *)
(* are drawn and runBuild composes the argument list, then once more from  *)
(* the same input; each call ranges over build.vars in an order of its own.*)
(***************************************************************************)
VarNames == <<<<"main.version">>, <<"main.commit">>, <<"main.date">>>>
VarValues == <<<<"1.2.3">>, <<"abc">>, <<"today">>>>

\* the build.vars maps: any of the first MaxVars names, each with its value
CmdVars ==
    {[k \in {VarNames[i] : i \in I} |->
         VarValues[CHOOSE i \in I : VarNames[i] = k]] : I \in SUBSET (1..MaxVars)}

CmdBuilds ==
    [Verbose : BOOLEAN,
     Tags : {<<>>, <<<<"prod">>>>, <<<<"prod">>, <<"netgo">>>>},
     TrimPath : BOOLEAN,
     GcFlags : {<<>>, <<"-N -l">>},
     AsmFlags : {<<>>, <<"-S">>},
     Mod : {<<>>, <<"mod">>},
     Race : BOOLEAN,
     LdFlags : {<<>>, <<<<"-s -w">>>>, <<<<"-s">>, <<"-w">>>>},
     Vars : CmdVars]

InitCmd ==
    /\ MainIdle
    /\ phase = "input"
    /\ input \in {[cfg |-> [Build |-> b, Source |-> <<".", "/", "cmd", "/", "srv">>],
                   out |-> o] :
                     b \in CmdBuilds, o \in {<<>>, <<"app">>}}
    /\ result = [first |-> <<>>, second |-> <<>>]

\* runBuild composes args
ComposeCmd ==
    /\ phase = "input"
    /\ \E order \in KeyOrders(input.cfg.Build.Vars) :
           result' = [result EXCEPT !.first = BuildArgs(input.cfg, input.out, order)]
    /\ phase' = "once"
    /\ UNCHANGED <<input, mainVars>>

\* runBuild composes args again from the same settings, out and source
ComposeCmdAgain ==
    /\ phase = "once"
    /\ \E order \in KeyOrders(input.cfg.Build.Vars) :
           result' = [result EXCEPT !.second = BuildArgs(input.cfg, input.out, order)]
    /\ phase' = "twice"
    /\ UNCHANGED <<input, mainVars>>

NextCmd == ComposeCmd \/ ComposeCmdAgain

SpecCmd == InitCmd /\ [][NextCmd]_vars

(***************************************************************************)
(* The build-directory setup on its own: a working directory is drawn and  *)
(* ensureBuildDir is called on it, time after time; result keeps what      *)
(* each call was given and what it left.                                   *)
(***************************************************************************)
\* the lines a .gitignore is drawn from
IgnoreLines ==
    {<<"builds">>, <<"builds", "/">>, <<" ", "builds", "/">>, <<"out", "/">>}

\* the texts of .gitignore: up to MaxLines lines, the last one with or without
\* its newline
IgnoreTexts ==
    LET ls == ListsUpTo(IgnoreLines, MaxLines)
    IN  {Join(l, <<"\n">>) : l \in ls}
        \cup {Join(l, <<"\n">>) \o <<"\n">> : l \in ls \ {<<>>}}

\* the working directories: dir is missing, a directory or a plain file
DirFiles ==
    {[dir |-> d, ignoreExists |-> TRUE, ignore |-> i] :
        d \in {"absent", "dir", "file"}, i \in IgnoreTexts}
    \cup {[dir |-> d, ignoreExists |-> FALSE, ignore |-> <<>>] :
              d \in {"absent", "dir", "file"}}

InitDir ==
    /\ pc = "idle"
    /\ flags = [dryRun |-> FALSE, skipDocker |-> FALSE, envMode |-> "diff"]
    /\ dryRun = FALSE
    /\ rawCfg = <<>>
    /\ cfg = <<>>
    /\ osEnv = EmptyMap
    /\ baseEnv = EmptyMap
    /\ runtime = [GOOS |-> <<"linux">>, GOARCH |-> <<"amd64">>]
    /\ fs \in DirFiles
    /\ idx = 0
    /\ log = <<>>
    /\ phase = "dir"
    /\ input = [dir |-> <<"builds">>, fs |-> fs]
    /\ result = <<>>

\* one call ensureBuildDir(dir); io is the fault the system calls of this call
\* meet, if any
EnsureBuildDirCall ==
    /\ phase = "dir"
    /\ Len(result) < MaxCalls
    /\ \E io \in IOFaults :
           LET r == ensureBuildDir(fs, input.dir, io)
           IN  /\ fs' = r.fs
               /\ result' = Append(result, [io |-> io, err |-> r.err,
                                            before |-> fs, after |-> r.fs])
    /\ UNCHANGED <<pc, flags, dryRun, rawCfg, cfg, osEnv, baseEnv, runtime, idx, log,
                   phase, input>>

NextDir == EnsureBuildDirCall

SpecDir == InitDir /\ [][NextDir]_vars

(***************************************************************************)
(* Claims about one invocation (under Spec).                               *)
(***************************************************************************)
DockerKinds == {"spawn-docker", "print-docker"}
SpawnKinds == {"spawn-go", "spawn-file", "spawn-docker"}
BuildKinds == {"spawn-go", "print-go"}

\* a docker section is there and --skip-docker is not
Delegating == rawCfg.Docker # <<>> /\ ~flags.skipDocker

\* --dry-run is given or build.debug is true
DryActive == flags.dryRun \/ rawCfg.Build.Debug

\* the compile steps so far: go run, or its command line printed
BuildEvents == SelectSeq(log, LAMBDA e : e.kind \in BuildKinds)

\* C1: with a docker section and no --skip-docker the invocation does nothing
\* but the one docker step, after which it has ended: no build directory setup,
\* no compile step, no static check on the host; in every other invocation
\* docker is never run nor its command line printed.
C1_DelegateOrLoop ==
    /\ Delegating =>
           /\ \A i \in DOMAIN log : log[i].kind \in DockerKinds
           /\ Len(log) <= 1
           /\ Len(log) = 1 => pc \in {"done", "fatal"}
           /\ pc \notin {"loop", "verify"}
    /\ ~Delegating => \A i \in DOMAIN log : log[i].kind \notin DockerKinds

\* docker ran for a configuration of two targets, and main returned
C1_Witness ==
    /\ pc = "done"
    /\ Delegating
    /\ Len(rawCfg.Targets) = 2
    /\ Len(log) = 1
    /\ log[1].kind = "spawn-docker"

\* C2: a failed process step (go, docker, file) is the last thing the invocation
\* does, and the invocation has ended with an error: nothing is started after it
\* and it is not run again.
C2_FailFast ==
    \A i \in DOMAIN log :
        (log[i].kind \in SpawnKinds /\ ~log[i].ok) => (i = Len(log) /\ pc = "fatal")

\* go failed for the first of two targets
C2_Witness ==
    /\ pc = "fatal"
    /\ Len(rawCfg.Targets) = 2
    /\ Len(log) = 2
    /\ log[2].kind = "spawn-go"
    /\ log[2].target = 1
    /\ ~log[2].ok

InLoop == log # <<>> /\ log[1].kind = "ensureBuildDir" /\ log[1].ok

\* C4: on the local path the k-th compile step is for the k-th declared target
\* (its os, arch, env and out), every step of a target comes after every step of
\* the targets before it, and main returns after exactly one compile step per
\* target; with no target declared there is one compile step, for the host's
\* os and arch and with no environment but the process's and the global one.
C4_StepsFollowTargets ==
    InLoop =>
        LET n == Len(cfg.Targets)
        IN  /\ \A k \in DOMAIN BuildEvents :
                   LET e == BuildEvents[k]
                   IN  IF n = 0
                       THEN /\ k = 1
                            /\ e.target = 0
                            /\ e.out = HostOut(cfg, runtime)
                            /\ e.env = envSlice(mergeEnvs(baseEnv, cfg.Env))
                       ELSE /\ k <= n
                            /\ e.target = k
                            /\ cfg.Targets[k].OS = Expand(rawCfg.Targets[k].OS, osEnv)
                            /\ GOOS \o <<"=">> \o cfg.Targets[k].OS \in e.env
                            /\ GOARCH \o <<"=">> \o cfg.Targets[k].Arch \in e.env
                            /\ e.out = TargetOut(cfg, cfg.Targets[k], runtime)
            /\ \A p, q \in 2..Len(log) : p < q =>
                   /\ log[p].target <= log[q].target
                   /\ log[q].kind \in BuildKinds => log[p].target < log[q].target
            /\ pc = "done" => Len(BuildEvents) = IF n = 0 THEN 1 ELSE n

\* main returned after compiling a linux and then a windows target
C4_Witness ==
    /\ pc = "done"
    /\ InLoop
    /\ Len(cfg.Targets) = 2
    /\ cfg.Targets[1].OS = <<"linux">>
    /\ cfg.Targets[2].OS = Windows
    /\ Len(BuildEvents) = 2
    /\ BuildEvents[1].kind = "spawn-go"
    /\ BuildEvents[2].kind = "spawn-go"

(***************************************************************************)
(* Claims about the target resolver (under SpecPath).                      *)
(***************************************************************************)
\* C5: no two targets of a configuration resolve to the same out.
C5_UniqueOutputs ==
    phase = "resolved" =>
        \A i, j \in DOMAIN result.outs : i # j => result.outs[i] # result.outs[j]

\* buildDir, os, arch and the base name, separated by the host's separator
DerivedPath(c, t, rt) ==
    LET src == SplitPath(c.Source, rt)
        base == IF c.Output # <<>> THEN c.Output ELSE src[Len(src)]
    IN  Join(SplitPath(c.BuildDir, rt) \o <<t.OS, t.Arch, base>>, <<Sep(rt)>>)

\* C6: out is the target's output when it has one; else buildDir/os/arch/base
\* name, with ".exe" appended for a windows target exactly when the path does
\* not end in ".exe" already, and with nothing appended for any other os.
C6_OutputPath ==
    phase = "resolved" =>
        \A i \in DOMAIN result.outs :
            LET t == input.cfg.Targets[i]
                derived == DerivedPath(input.cfg, t, input.rt)
                out == result.outs[i]
            IN  /\ t.Output # <<>> => out = t.Output
                /\ (t.Output = <<>> /\ t.OS # Windows) => out = derived
                /\ (t.Output = <<>> /\ t.OS = Windows) =>
                       /\ HasSuffix(out, DotExe)
                       /\ HasSuffix(derived, DotExe) => out = derived
                       /\ ~HasSuffix(derived, DotExe) => out = derived \o DotExe

\* output app with linux/amd64 and windows/amd64 gave builds/linux/amd64/app and
\* builds/windows/amd64/app.exe
C6_Witness ==
    /\ phase = "resolved"
    /\ input.cfg.BuildDir = <<"builds">>
    /\ input.cfg.Output = <<"app">>
    /\ input.rt.GOOS = <<"linux">>
    /\ Len(input.cfg.Targets) = 2
    /\ input.cfg.Targets[1] = [OS |-> <<"linux">>, Arch |-> <<"amd64">>, Output |-> <<>>]
    /\ input.cfg.Targets[2] = [OS |-> Windows, Arch |-> <<"amd64">>, Output |-> <<>>]
    /\ result.outs[1] = <<"builds", "/", "linux", "/", "amd64", "/", "app">>
    /\ result.outs[2] = <<"builds", "/", "windows", "/", "amd64", "/", "app", ".exe">>

(***************************************************************************)
(* Claims about the environment composer (under SpecEnv).                  *)
(***************************************************************************)
CGO == <<"CGO_ENABLED">>

\* the value of k in the highest of the layers process < global < per-target
Layered(k) ==
    IF k \in DOMAIN input.target.Env THEN input.target.Env[k]
    ELSE IF k \in DOMAIN input.global THEN input.global[k]
    ELSE input.base[k]

LayerKeys == DOMAIN input.base \cup DOMAIN input.global \cup DOMAIN input.target.Env

Differs(k) == k \notin DOMAIN input.base \/ result.target[k] # input.base[k]

\* C8 as stated: in diff mode the variables printed for a target are the keys of
\* the configured maps whose composed value is new or differs from the
\* process's; with no configured map, none is printed.
C8_DiffIsConfiguredKeys ==
    (phase = "composed" /\ input.envMode = "diff") =>
        /\ DOMAIN result.shown =
               {k \in (DOMAIN input.global \cup DOMAIN input.docker
                          \cup DOMAIN input.target.Env) \cap DOMAIN result.target :
                    Differs(k)}
        /\ (input.global = EmptyMap /\ input.docker = EmptyMap
               /\ input.target.Env = EmptyMap) => result.shown = EmptyMap

\* C8 amended: in diff mode the variables printed for a declared target are the
\* keys of the global and per-target maps and GOOS and GOARCH whose final value
\* is new or differs from the process's, each with its final value; for the
\* host build they are such keys of the global map; with no configured map the
\* host build prints no variable and a declared target none but GOOS and
\* GOARCH; the command line is printed in either case.
C8_DiffIsConfiguredKeysAndSelectors ==
    (phase = "composed" /\ input.envMode = "diff") =>
        /\ DOMAIN result.shown =
               {k \in DOMAIN input.global \cup DOMAIN input.target.Env \cup {GOOS, GOARCH} :
                    Differs(k)}
        /\ \A k \in DOMAIN result.shown : result.shown[k] = result.target[k]
        /\ DOMAIN result.hostShown =
               {k \in DOMAIN input.global :
                    k \notin DOMAIN input.base \/ input.global[k] # input.base[k]}
        /\ \A k \in DOMAIN result.hostShown : result.hostShown[k] = input.global[k]
        /\ (input.global = EmptyMap /\ input.target.Env = EmptyMap) =>
               /\ result.hostShown = EmptyMap
               /\ DOMAIN result.shown \subseteq {GOOS, GOARCH}
        /\ SubSeq(result.cmd, 1, 3) = <<"go", " ", "build">>

\* no configured map, a process environment with CGO_ENABLED: the host build
\* printed no variable, the target GOOS and GOARCH, and the command line
C8_Witness ==
    /\ phase = "composed"
    /\ input.envMode = "diff"
    /\ input.global = EmptyMap
    /\ input.target.Env = EmptyMap
    /\ DOMAIN input.base = {CGO}
    /\ result.hostShown = EmptyMap
    /\ DOMAIN result.shown = {GOOS, GOARCH}
    /\ result.cmd # <<>>

(***************************************************************************)
(* Claims about the placeholder expander (under SpecExpand).               *)
(***************************************************************************)
NoDollar(s) == ~Contains(s, "$")

\* a variable name: one or more letters, digits, underscores
IsName(n) == n # <<>> /\ \A p \in 1..Len(n) : isAlphaNum(n[p])

\* s[a..b] is "${", a body without "}", and "}"
IsBraced(s, a, b) ==
    /\ s[a] = "$"
    /\ s[a + 1] = "{"
    /\ s[b] = "}"
    /\ \A p \in (a + 2)..(b - 1) : s[p] # "}"

\* what the resolution rule makes of a reference to name
RefValue(name, hasDefault, def, E) ==
    IF name \in DOMAIN E /\ E[name] # <<>> THEN E[name]
    ELSE IF hasDefault THEN def
    ELSE <<>>

C9_WitnessSet ==
    /\ phase = "once"
    /\ input.s = <<"$", "{", "V", ":", "-", "d", "}">>
    /\ <<"V">> \in DOMAIN input.E
    /\ input.E[<<"V">>] = <<"v2">>
    /\ result.once = <<"v2">>

\* C10 as stated: expanding the result once more changes nothing, whatever the
\* string and the environment.
C10_Idempotent == phase = "twice" => result.twice = result.once

\* no "$" between a "${" and the next "}": no default text holds a "$"
NoDollarInBraces(s) ==
    \A a \in 1..(Len(s) - 1) : \A b \in (a + 2)..Len(s) :
        IsBraced(s, a, b) => NoDollar(SubSeq(s, a + 2, b - 1))

\* C10 amended: expanding the result once more changes nothing when no variable's
\* value holds a "$" and no "$" stands between a "${" and the next "}".
C10_IdempotentOnPlainValues ==
    ( /\ phase = "twice"
      /\ \A k \in DOMAIN input.E : NoDollar(input.E[k])
      /\ NoDollarInBraces(input.s) ) => result.twice = result.once

\* ${V} with V=v2 gave v2, and v2 once more
C10_Witness ==
    /\ phase = "twice"
    /\ input.s = <<"$", "{", "V", "}">>
    /\ <<"V">> \in DOMAIN input.E
    /\ input.E[<<"V">>] = <<"v2">>
    /\ result.once = <<"v2">>
    /\ result.twice = <<"v2">>

\* s is text without "$", then "${", then text without "$" or "}": its one
\* reference is not closed
UnterminatedAt(s, p) ==
    /\ p + 1 <= Len(s)
    /\ s[p] = "$"
    /\ s[p + 1] = "{"
    /\ NoDollar(SubSeq(s, 1, p - 1))
    /\ \A q \in (p + 2)..Len(s) : s[q] \notin {"$", "}"}

\* C11: a string whose "${" has no closing brace comes out of the expansion
\* with that reference as it stood in the input: nothing of it is dropped or
\* replaced (the string has no other reference, so it comes out unchanged).
C11_MalformedStaysLiteral ==
    phase \in {"once", "twice"} =>
        \A p \in 1..Len(input.s) :
            UnterminatedAt(input.s, p) => result.once = input.s

(***************************************************************************)
(* Claims about the static check and the commands (under Spec).            *)
(***************************************************************************)
FileKinds == {"spawn-file", "print-file"}

\* the step at position p of log is followed by the static check of its target
VerifyEntered(p) ==
    \/ p = Len(log) /\ pc = "verify"
    \/ p < Len(log) /\ log[p + 1].kind \in FileKinds

\* what the configuration document asks for target k (0: the host build)
VerifyWanted(k) ==
    IF k = 0 THEN rawCfg.Build.VerifyStatic
    ELSE LET own == rawCfg.Targets[k].VerifyStatic
         IN  own = "true" \/ (own = "unset" /\ rawCfg.Build.VerifyStatic)

\* C12: after the compile step of a target the static check is entered exactly
\* when the target's own verify_static is true, or is not given and
\* build.verify_static is true; for the host build, exactly when
\* build.verify_static is true.
C12_VerifyStaticResolution ==
    \A p \in DOMAIN log :
        (log[p].kind \in BuildKinds /\ log[p].ok) =>
            (VerifyEntered(p) <=> VerifyWanted(log[p].target))

\* wantStatic as main computes it for target k (0: the host build)
EffectiveWant(k) ==
    IF k = 0 THEN cfg.Build.VerifyStatic ELSE WantStatic(cfg, cfg.Targets[k])

FlagOrder == <<"-v", "-tags", "-trimpath", "-gcflags", "-asmflags", "-mod", "-race",
               "-ldflags", "-o">>
ValueFlags == {"-tags", "-gcflags", "-asmflags", "-mod", "-ldflags", "-o"}

\* the setting of flag f is true or not empty
FlagSet(f) ==
    LET b == input.cfg.Build
    IN  CASE f = "-v" -> b.Verbose
          [] f = "-tags" -> b.Tags # <<>>
          [] f = "-trimpath" -> b.TrimPath
          [] f = "-gcflags" -> b.GcFlags # <<>>
          [] f = "-asmflags" -> b.AsmFlags # <<>>
          [] f = "-mod" -> b.Mod # <<>>
          [] f = "-race" -> b.Race
          [] f = "-ldflags" -> b.LdFlags # <<>> \/ b.Vars # EmptyMap
          [] f = "-o" -> input.out # <<>>

\* where the token <<f>> stands in args
FlagAt(args, f) == {p \in DOMAIN args : args[p] = <<f>>}

\* C14: args is "build", then the flags whose setting is true or not empty,
\* each once and in the order -v, -tags, -trimpath, -gcflags, -asmflags, -mod,
\* -race, -ldflags, -o, a flag with a value followed by that value (the tags
\* joined by commas into one token), then the source as the last argument, and
\* no token else.
C14_ArgumentOrder ==
    phase \in {"once", "twice"} =>
        LET args == result.first
            b == input.cfg.Build
            set == {i \in DOMAIN FlagOrder : FlagSet(FlagOrder[i])}
            pos(i) == CHOOSE p \in FlagAt(args, FlagOrder[i]) : TRUE
        IN  /\ args[1] = <<"build">>
            /\ args[Len(args)] = input.cfg.Source
            /\ \A i \in DOMAIN FlagOrder :
                   Cardinality(FlagAt(args, FlagOrder[i])) = IF i \in set THEN 1 ELSE 0
            /\ \A i, j \in set : i < j => pos(i) < pos(j)
            /\ Len(args) = 2 + Cardinality(set)
                             + Cardinality({i \in set : FlagOrder[i] \in ValueFlags})
            /\ b.Tags # <<>> => args[pos(2) + 1] = Join(b.Tags, <<",">>)
            /\ b.GcFlags # <<>> => args[pos(4) + 1] = b.GcFlags
            /\ b.AsmFlags # <<>> => args[pos(5) + 1] = b.AsmFlags
            /\ b.Mod # <<>> => args[pos(6) + 1] = b.Mod
            /\ input.out # <<>> => args[pos(9) + 1] = input.out

\* every setting given: all nine flags, the two tags as prod,netgo
C14_Witness ==
    /\ phase = "once"
    /\ input.cfg.Build.Vars = EmptyMap
    /\ result.first = << <<"build">>, <<"-v">>, <<"-tags">>, <<"prod", ",", "netgo">>,
                         <<"-trimpath">>, <<"-gcflags">>, <<"-N -l">>,
                         <<"-asmflags">>, <<"-S">>, <<"-mod">>, <<"mod">>, <<"-race">>,
                         <<"-ldflags">>, <<"-s -w">>, <<"-o">>, <<"app">>,
                         <<".", "/", "cmd", "/", "srv">> >>

\* the -ldflags token of args, or <<>> when args has no -ldflags
LdflagsToken(args) ==
    IF FlagAt(args, "-ldflags") = {} THEN <<>>
    ELSE args[(CHOOSE p \in FlagAt(args, "-ldflags") : TRUE) + 1]

\* the item of variable k
XItem(k) == <<"-X", " ", "'">> \o k \o <<"=">> \o input.cfg.Build.Vars[k] \o <<"'">>

\* C15: the -ldflags token is the link flags in their order and then one
\* -X 'name=value' item for each variable, in some order of the variables, all
\* separated by one space; without link flags and variables args has no
\* -ldflags.
C15_LinkFlags ==
    phase \in {"once", "twice"} =>
        LET b == input.cfg.Build
            token == LdflagsToken(result.first)
        IN  /\ (b.LdFlags = <<>> /\ b.Vars = EmptyMap) => FlagAt(result.first, "-ldflags") = {}
            /\ (b.LdFlags # <<>> \/ b.Vars # EmptyMap) =>
                   /\ Cardinality(FlagAt(result.first, "-ldflags")) = 1
                   /\ \E o \in KeyOrders(b.Vars) :
                          token = Join(b.LdFlags \o [i \in DOMAIN o |-> XItem(o[i])], <<" ">>)

\* link flags ['-s -w'] and vars {main.version: 1.2.3} gave -s -w -X 'main.version=1.2.3'
C15_Witness ==
    /\ phase = "once"
    /\ input.cfg.Build.LdFlags = <<<<"-s -w">>>>
    /\ DOMAIN input.cfg.Build.Vars = {<<"main.version">>}
    /\ LdflagsToken(result.first) =
           <<"-s -w", " ", "-X", " ", "'", "main.version", "=", "1.2.3", "'">>

\* C16: composing the command twice from the same settings, out and source
\* gives the same argument list.
C16_StableComposition == phase = "twice" => result.second = result.first

(***************************************************************************)
(* Claims about the build directory setup (under Spec).                    *)
(***************************************************************************)
\* .gitignore has a line that is dir or dir/, blanks around it aside
Listed(f, dir) ==
    /\ f.ignoreExists
    /\ \E i \in DOMAIN Lines(f.ignore) :
           TrimSpace(Lines(f.ignore)[i]) \in {dir, dir \o <<"/">>}

\* C17: when the build directory is there as a directory and .gitignore does
\* not list it, the setup returns an error and main ends with it before any
\* target; the directory and .gitignore stay as they were.
C17_PreconditionError ==
    [][ ( /\ pc = "decide"
          /\ pc' # "decide"
          /\ ~Delegating
          /\ fs.dir = "dir"
          /\ ~Listed(fs, cfg.BuildDir) ) =>
            ( /\ pc' = "fatal"
              /\ fs' = fs
              /\ log' = <<DirEvent(cfg.BuildDir, "not ignored")>> ) ]_vars

\* builds/ was there, .gitignore listed out/ only: main ended with the error,
\* two targets declared and none processed
C17_Witness ==
    /\ pc = "fatal"
    /\ Len(rawCfg.Targets) = 2
    /\ fs = [dir |-> "dir", ignoreExists |-> TRUE, ignore |-> <<"out", "/", "\n">>]
    /\ Len(log) = 1
    /\ log[1].kind = "ensureBuildDir"
    /\ log[1].err = "not ignored"

\* C18: ensureBuildDir runs at most once in an invocation, before every compile
\* step and static check; when it fails main ends at once, no go command run
\* or printed for any target; nothing else touches the directory or
\* .gitignore.
C18_SetupOnceAndFirst ==
    /\ [](/\ Cardinality({p \in DOMAIN log : log[p].kind = "ensureBuildDir"}) <= 1
          /\ \A p \in DOMAIN log :
                 /\ log[p].kind = "ensureBuildDir" => p = 1
                 /\ log[p].kind \in BuildKinds \cup FileKinds =>
                        (p > 1 /\ log[1].kind = "ensureBuildDir" /\ log[1].ok)
          /\ (log # <<>> /\ log[1].kind = "ensureBuildDir" /\ ~log[1].ok) =>
                 (Len(log) = 1 /\ pc = "fatal"))
    /\ [][fs' # fs => (pc = "decide" /\ log = <<>> /\ Len(log') = 1
                          /\ log'[1].kind = "ensureBuildDir")]_vars

\* the setup created builds/ and registered it in a .gitignore that listed
\* out/, then both targets were compiled
C18_Witness ==
    /\ pc = "done"
    /\ Len(rawCfg.Targets) = 2
    /\ Len(log) = 3
    /\ log[1].kind = "ensureBuildDir"
    /\ log[1].ok
    /\ fs = [dir |-> "dir", ignoreExists |-> TRUE,
             ignore |-> <<"out", "/", "\n", "builds", "/", "\n">>]
    /\ log[2].kind = "spawn-go"
    /\ log[3].kind = "spawn-go"

(***************************************************************************)
(* Claims about the expansion and the docker path (under Spec).            *)
(***************************************************************************)
\* LoadAndExpand has run
Loaded == pc \in {"decide", "loop", "verify", "done"} \/ (pc = "fatal" /\ log # <<>>)

\* one application of expand to s
Once(s) == Expand(s, osEnv)

\* m is raw with every key and every value expanded once (no two keys of raw
\* expand to the same key)
MapExpanded(m, raw) ==
    /\ DOMAIN m = {Once(k) : k \in DOMAIN raw}
    /\ \A k \in DOMAIN raw : m[Once(k)] = Once(raw[k])

ListExpanded(l, raw) == Len(l) = Len(raw) /\ \A i \in DOMAIN raw : l[i] = Once(raw[i])

\* the fields of the top level, of the build section and of the targets are
\* those of the document, expanded once
FieldsExpanded ==
    /\ cfg.BuildDir = Once(IF rawCfg.BuildDir = <<>> THEN <<"builds">> ELSE rawCfg.BuildDir)
    /\ cfg.Source = Once(rawCfg.Source)
    /\ cfg.Output = Once(rawCfg.Output)
    /\ MapExpanded(cfg.Env, rawCfg.Env)
    /\ ListExpanded(cfg.Build.Tags, rawCfg.Build.Tags)
    /\ ListExpanded(cfg.Build.LdFlags, rawCfg.Build.LdFlags)
    /\ MapExpanded(cfg.Build.Vars, rawCfg.Build.Vars)
    /\ cfg.Build.GcFlags = Once(rawCfg.Build.GcFlags)
    /\ cfg.Build.AsmFlags = Once(rawCfg.Build.AsmFlags)
    /\ cfg.Build.Mod = Once(rawCfg.Build.Mod)
    /\ Len(cfg.Targets) = Len(rawCfg.Targets)
    /\ \A i \in DOMAIN rawCfg.Targets :
           /\ cfg.Targets[i].OS = Once(rawCfg.Targets[i].OS)
           /\ cfg.Targets[i].Arch = Once(rawCfg.Targets[i].Arch)
           /\ cfg.Targets[i].Output = Once(rawCfg.Targets[i].Output)
           /\ MapExpanded(cfg.Targets[i].Env, rawCfg.Targets[i].Env)

\* nothing has happened before the expansion, and the steps after it work on
\* the expanded fields
ExpandedBeforeUse ==
    /\ pc = "start" => (log = <<>> /\ dryRun = flags.dryRun /\ baseEnv = EmptyMap)
    /\ Loaded =>
           /\ dryRun = (flags.dryRun \/ cfg.Build.Debug)
           /\ \A p \in DOMAIN log :
                  /\ log[p].kind = "ensureBuildDir" => log[p].out = cfg.BuildDir
                  /\ log[p].kind \in BuildKinds =>
                         /\ log[p].args[Len(log[p].args)] = cfg.Source
                         /\ \A k \in DOMAIN cfg.Env \ {GOOS, GOARCH} :
                                \E kv \in log[p].env : KeyOf(kv) = k

\* the -e arguments of the docker step
ForwardedEnv(args) == {args[p + 1] : p \in {q \in 1..(Len(args) - 1) : args[q] = <<"-e">>}}

\* C19 as stated: the configuration main works on is the document with every
\* string field expanded once, the environment map of the docker section
\* included; it is there before anything else happens, and no step reads an
\* unexpanded field.
C19_EveryFieldExpandedOnce ==
    /\ ExpandedBeforeUse
    /\ Loaded =>
           /\ FieldsExpanded
           /\ rawCfg.Docker # <<>> =>
                  MapExpanded(cfg.Docker[1].Env, rawCfg.Docker[1].Env)
           /\ \A p \in DOMAIN log :
                  log[p].kind \in DockerKinds =>
                      \A k \in DOMAIN rawCfg.Docker[1].Env :
                          Once(k) \o <<"=">> \o Once(rawCfg.Docker[1].Env[k])
                              \in ForwardedEnv(log[p].args)

\* the command line of the tool for the run inside the container
SelfInvocation == <<"go-builder", " ", "--skip-docker", " ", "--config=.gobuilder.yml">>

\* the shell script of a docker step: its last argument, after -c
Script(args) == args[Len(args)]

C20_WitnessInner ==
    /\ pc = "done"
    /\ flags.skipDocker
    /\ rawCfg.Docker # <<>>
    /\ Len(log) = 3
    /\ log[2].kind = "spawn-go"
    /\ log[3].kind = "spawn-go"

(***************************************************************************)
(* Claims about the selectors and the loop's frame (under SpecEnv).        *)
(***************************************************************************)
\* the entries of key k in the slice runBuild hands to go
EntriesOf(k) == {kv \in envSlice(result.target) : KeyOf(kv) = k}

\* C21: the environment of a declared target has one GOOS entry, the target's
\* os, and one GOARCH entry, the target's arch, whatever the process
\* environment, the global env and the target's env hold for these keys; a dry
\* run shows these values: always in mode all, and in mode diff unless the
\* process environment has the same value already.
C21_SelectorsInjected ==
    phase = "composed" =>
        /\ {GOOS, GOARCH} \subseteq DOMAIN result.target
        /\ result.target[GOOS] = input.target.OS
        /\ result.target[GOARCH] = input.target.Arch
        /\ EntriesOf(GOOS) = {GOOS \o <<"=">> \o input.target.OS}
        /\ EntriesOf(GOARCH) = {GOARCH \o <<"=">> \o input.target.Arch}
        /\ \A k \in {GOOS, GOARCH} :
               /\ k \in DOMAIN result.shown => result.shown[k] = result.target[k]
               /\ input.envMode = "all" => k \in DOMAIN result.shown
               /\ input.envMode = "diff" =>
                      (k \in DOMAIN result.shown <=>
                           ~(k \in DOMAIN input.base /\ input.base[k] = result.target[k]))

\* GOOS=linux in the process, GOOS=0 in the global env, GOOS=1 in the target's
\* env, a windows target: go got GOOS=windows
C21_Witness ==
    /\ phase = "composed"
    /\ input.target.OS = Windows
    /\ GOOS \in DOMAIN input.base
    /\ input.base[GOOS] = <<"linux">>
    /\ GOOS \in DOMAIN input.global
    /\ input.global[GOOS] = <<"0">>
    /\ GOOS \in DOMAIN input.target.Env
    /\ input.target.Env[GOOS] = <<"1">>
    /\ result.target[GOOS] = Windows

\* the snapshot main takes of the process environment
BaseSnapshot == sliceToMap(envSlice(osEnv))

\* a step taken inside the loop over the targets changes neither baseEnv nor cfg
LoopStepKeepsInputs ==
    pc \in {"loop", "verify"} => baseEnv' = baseEnv /\ cfg' = cfg

\* C22 (under Spec): a pass of the loop leaves baseEnv and the expanded
\* configuration as they were, and the environment of the k-th compile step is
\* the one composed from the snapshot of the process environment, the global
\* env and the k-th target alone: its keys are those of these three and GOOS
\* and GOARCH, none from another target.
C22_NoLeakBetweenTargets ==
    /\ [](InLoop =>
              /\ baseEnv = BaseSnapshot
              /\ Len(cfg.Targets) > 0 =>
                     \A k \in DOMAIN BuildEvents :
                         LET t == cfg.Targets[k]
                             env == BuildEvents[k].env
                         IN  /\ env = envSlice(TargetEnv(BaseSnapshot, cfg.Env, t))
                             /\ \A kv \in env :
                                    KeyOf(kv) \in DOMAIN osEnv \cup DOMAIN cfg.Env
                                                   \cup DOMAIN t.Env \cup {GOOS, GOARCH})
    /\ [][LoopStepKeepsInputs]_vars

\* a windows target with CC=gcc, then a linux target without env: the second
\* go ran with GOOS=linux and no CC
C22_Witness ==
    /\ pc = "done"
    /\ Len(rawCfg.Targets) = 2
    /\ Len(BuildEvents) = 2
    /\ BuildEvents[1].kind = "spawn-go"
    /\ <<"GOOS", "=", "windows">> \in BuildEvents[1].env
    /\ <<"CC", "=", "gcc">> \in BuildEvents[1].env
    /\ BuildEvents[2].kind = "spawn-go"
    /\ <<"GOOS", "=", "linux">> \in BuildEvents[2].env
    /\ \A kv \in BuildEvents[2].env : KeyOf(kv) # <<"CC">>

\* s holds a "${" somewhere
HasReference(s) == \E p \in 1..(Len(s) - 1) : s[p] = "$" /\ s[p + 1] = "{"

\* C23 (under SpecExpand): a string without "${" comes out of expand as it
\* went in, whatever the environment holds.
C23_OnlyReferencesTouched ==
    phase # "input" /\ ~HasReference(input.s) => result.once = input.s

(***************************************************************************)
(* Claims about the build-directory setup (under SpecDir).                 *)
(***************************************************************************)
\* how many lines of the ignore list of f name dir
EntryCount(f, dir) ==
    Cardinality({i \in DOMAIN Lines(f.ignore) :
                    TrimSpace(Lines(f.ignore)[i]) \in {dir, dir \o <<"/">>}})

\* C24 (under SpecDir): a call of ensureBuildDir that succeeds leaves the
\* directory in place and listed in .gitignore; the call after it, when its
\* system calls meet no fault, succeeds too and changes nothing; and all the
\* calls together add at most one line for the directory to .gitignore.
C24_IdempotentSetup ==
    /\ \A i \in DOMAIN result :
           result[i].err = "none" =>
               /\ result[i].after.dir = "dir"
               /\ EntryCount(result[i].after, input.dir) > 0
               /\ (i + 1 \in DOMAIN result /\ result[i + 1].io = "none") =>
                      /\ result[i + 1].err = "none"
                      /\ result[i + 1].after = result[i + 1].before
    /\ EntryCount(fs, input.dir) <= EntryCount(input.fs, input.dir) + 1

====
